---- MODULE Spec2Model ----
(***************************************************************************)
(* Redis-backed lease lock of noble-gase/kr (kr-core/src/mutex and the     *)
(* older src/mutex variants): acquisition by SET key token NX PX ttl with  *)
(* the corrective GET after a failed SET, the bounded retry loop, release  *)
(* by the compare-and-delete script, and the release run when the handle   *)
(* goes out of scope (synchronously, or by a detached task in the          *)
(* non-blocking variant).                                                  *)
(*                                                                         *)
(* Every store command is one atomic step of the store; the steps of       *)
(* different clients interleave freely.  The store may fail any command;   *)
(* a failed SET or script may or may not have been applied.  The lease is  *)
(* ended by the store at a time the clients do not control (Expire).       *)
(*                                                                         *)
(* Spec is the system of the handles that acquire() constructs.            *)
(* SpecHealthy is Spec with spawned release tasks that meet no store       *)
(* failure, on a runtime fair to them until it is shut down.  SpecCancel   *)
(* adds the caller                                                         *)
(* dropping the future of a non-blocking acquire.  SpecBuilder is the      *)
(* system of the RedLock::new handles of redlock.rs, whose acquire takes   *)
(* and returns the handle.  SpecArgs and SpecRetry are the handles of      *)
(* acquire() called with any key and ttl, and with any attempts.           *)
(* SpecExpiry is SpecCancel with a store that ends every lease.            *)
(***************************************************************************)
EXTENDS Integers, FiniteSets

\* ---------------------------------------------------------------- bounds
MaxAttempts == 2

Clients == {1, 2}
Keys == {"k1"}
Ttls == {500, 1500}

\* ---------------------------------------------------------------- values
\* Stored values and tokens are pairs.  <<c, n>> with c in Clients is the
\* token generated by client c for its n-th SET (Uuid::new_v4: never equal
\* to any other generated token).
None == <<0, 0>>
Foreign == <<0, 1>>
NoGet == <<-1, 0>>
GetFailed == <<-1, 1>>

VARIABLES
    store,      \* store[k]: the value at key k, None when the key is absent
    pttl,       \* pttl[k]: the expiry key k was written with, in ms (PTTL:
                \*          -2 when the key is absent, -1 when it has none)
    lock,       \* lock[c]: the handle struct {key, ttl, token, prevent}
    call,       \* call[c]: where client c's acquire call / handle is
    obs,        \* obs[c]: how the commands of c's acquire call were answered
    rel,        \* rel[c]: how the last release of c's handle ended
    io,         \* io[c]: the command c's last operation sent to the store,
                \*        what became of the task its Drop spawned, and which
                \*        acquire call of a RedLock::new handle this is
    bg,         \* detached release tasks spawned by the non-blocking Drop
    lastEvent   \* lastEvent[k]: how key k was last removed or overwritten

vars == <<store, pttl, lock, call, obs, rel, io, bg, lastEvent>>

\* ------------------------------------------------------------ the store
\* SET key value NX PX ttl: writes only when the key is absent, and replies
\* whether it wrote.
\* Fault variant: the SET sent without NX.
SetPx(st, k, v) == [store |-> [st EXCEPT ![k] = v], reply |-> TRUE]
SetNxPx(st, k, v) ==
    IF st[k] = None
    THEN [store |-> [st EXCEPT ![k] = v], reply |-> TRUE]
    ELSE [store |-> st, reply |-> FALSE]

\* The expiry side of the same SET: armed only when the key is written.
\* Fault variant: a SET that writes the key without an expiry.
SetNxPxPersists(st, ex, k, px) == IF st[k] = None THEN [ex EXCEPT ![k] = -1] ELSE ex
\* Fault variant: a SET that re-arms the expiry of a key it does not write.
SetNxPxTouches(st, ex, k, px) == [ex EXCEPT ![k] = px]
\* Fault variant: a SET that extends the expiry of a key that is held.
SetNxPxExtends(st, ex, k, px) == [ex EXCEPT ![k] = IF st[k] = None THEN px ELSE @ + px]
SetNxPxTtl(st, ex, k, px) == IF st[k] = None THEN [ex EXCEPT ![k] = px] ELSE ex

\* A key that is gone has no expiry; one that stays keeps the one it has.
Kept(st2, ex) == [k \in DOMAIN ex |-> IF st2[k] = None THEN -2 ELSE ex[k]]

\* GET key.
Get(st, k) == st[k]

\* The release script: if GET KEYS[1] == ARGV[1] then DEL KEYS[1] else 0.
\* Fault variant: a script that deletes without comparing.
DelNoCompare(st, k, t) == [st EXCEPT ![k] = None]
DEL(st, k, t) == IF st[k] = t THEN [st EXCEPT ![k] = None] ELSE st

\* The script's return value.
DelReply(st, k, t) == IF st[k] = t THEN 1 ELSE 0

\* Uuid::new_v4().to_string() of client c's n-th attempt.
\* Fault variant: a token generator that repeats itself.
NewTokenReused(c, n) == <<1, 1>>
NewToken(c, n) == <<c, n>>

\* PX(self.ttl.as_millis() as u64): the expiry in ms of a ttl given in ms.
Px(d) == d

\* EX(self.ttl.as_secs().max(1)) of RedLock::new handles, in ms.
Ex(d) == (IF d \div 1000 < 1 THEN 1 ELSE d \div 1000) * 1000

\* ------------------------------------------------------------ the state
\* The locals of an acquire call before it starts.
InitCall == [pc |-> "idle", retry |-> FALSE, attempts |-> 0, i |-> 0, result |-> "pending"]

\* What has been observed of a call that issued no command yet.
InitObs ==
    [nSet |-> 0, nGet |-> 0, nSleep |-> 0,
     setOut |-> "none", landed |-> FALSE, getSaw |-> NoGet]

Init ==
    /\ store = [k \in Keys |-> None]
    /\ pttl = [k \in Keys |-> -2]
    /\ lock = [c \in Clients |->
                 [key |-> "k1", ttl |-> 500, token |-> None, prevent |-> FALSE]]
    /\ call = [c \in Clients |-> InitCall]
    /\ obs = [c \in Clients |-> InitObs]
    /\ rel = [c \in Clients |-> [relOut |-> "none", scriptRet |-> -1]]
    /\ io = [c \in Clients |-> [cmd |-> "none", task |-> "none", gen |-> 0]]
    /\ bg = {}
    /\ lastEvent = [k \in Keys |-> "quiet"]

\* The event recorded for a key whose value a step removed.
Removed(st, st2, k, ev) == IF st[k] # None /\ st2[k] = None THEN ev ELSE lastEvent[k]

\* The caller uses the handle it was given: the locals of the finished
\* acquire call are gone, and the observation of that call ends.
Owned(c, p) == [InitCall EXCEPT !.pc = p, !.result = "Some"]

\* The caller has client c's handle: an acquire returned it ("held"), or
\* RedLock::new built it and no acquire was called on it yet ("new").
HasHandle(c) == call[c].pc \in {"held", "new"}

\* A method that takes &mut self leaves the handle with the caller.
Still(c) == IF call[c].pc = "new" THEN call[c] ELSE Owned(c, "held")

\* The command client c's operation sent to the store ("none": it sent none).
Sent(c, x) == [io EXCEPT ![c].cmd = x]

\* ------------------------------------------------------------- acquire
\* acquire(pool, key, ttl, retry): builds the handle with token None and
\* enters the retry loop or the single attempt.  A retry of no attempts
\* runs the loop body zero times and returns Ok(None).
Acquire(c) ==
    /\ call[c].pc = "idle"
    /\ \E k \in Keys, d \in Ttls, r \in BOOLEAN, n \in 0..MaxAttempts :
        /\ r \/ n = 0
        /\ lock' = [lock EXCEPT ![c] =
                      [key |-> k, ttl |-> d, token |-> None, prevent |-> FALSE]]
        /\ call' = [call EXCEPT ![c] =
                      [pc |-> IF r /\ n <= 0 THEN "done" ELSE "set_nx",
                       retry |-> r, attempts |-> n, i |-> 0,
                       result |-> IF r /\ n <= 0 THEN "None" ELSE "pending"]]
    /\ UNCHANGED <<store, pttl, obs, rel, io, bg, lastEvent>>

\* Where the call goes after an attempt that left the token None:
\* the loop sleeps when i < threshold, otherwise the call returns Ok(None).
\* let threshold = attempts - 1;
\* Fault variant: threshold = attempts (a sleep after the last attempt).
ThresholdOff(c) == call[c].attempts
Threshold(c) == call[c].attempts - 1

AfterFailed(c) ==
    IF call[c].retry /\ call[c].i < Threshold(c)
    THEN [call[c] EXCEPT !.pc = "sleep"]
    ELSE [call[c] EXCEPT !.pc = "done", !.result = "None"]

\* The call returns Ok(Some(handle)).
\* Fault variant: the loop goes on after the token was set.
ReturnedLate(c) ==
    IF call[c].retry /\ call[c].i < call[c].attempts - 1
    THEN [call[c] EXCEPT !.pc = "sleep"]
    ELSE [call[c] EXCEPT !.pc = "held", !.result = "Some"]
Returned(c) == [call[c] EXCEPT !.pc = "held", !.result = "Some"]

\* The call returns Err(e); the handle inside it is dropped.
Failed(c, e) == [call[c] EXCEPT !.pc = "done", !.result = e]

\* The token of the attempt client c is making.
Tok(c) == NewToken(c, obs[c].nSet + 1)
CurTok(c) == NewToken(c, obs[c].nSet)

\* The expiry the handle's SET carries: PX ms, or EX s for RedLock::new.
Lease(c) == IF io[c].gen > 0 THEN Ex(lock[c].ttl) ELSE Px(lock[c].ttl)

\* After set_nx returned Ok(()): the token decides (token.is_none()).
AfterSetNx(c, got) ==
    IF got \/ lock[c].token # None THEN Returned(c) ELSE AfterFailed(c)

\* set_nx: pool.get() fails.
SetNxConnFail(c) ==
    /\ call[c].pc = "set_nx"
    /\ call' = [call EXCEPT ![c] = Failed(c, "ErrConn")]
    /\ obs' = [obs EXCEPT ![c] =
                 [@ EXCEPT !.nGet = 0, !.setOut = "conn", !.landed = FALSE, !.getSaw = NoGet]]
    /\ io' = Sent(c, "none")
    /\ UNCHANGED <<store, pttl, lock, rel, bg, lastEvent>>

\* set_nx: the SET is answered Ok(true) or Ok(false).  (The store answers
\* a SET whose expiry is not positive with an error: SetNxInvalid.)
\* Fault variant: the handle dropped at a None return has the key deleted.
SetNxOkCleans(c) ==
    /\ call[c].pc = "set_nx"
    /\ Lease(c) > 0
    /\ LET k == lock[c].key
           ok == SetNxPx(store, k, Tok(c)).reply
           gone == ~ok /\ AfterSetNx(c, ok).pc = "done"
           st2 == IF gone THEN [store EXCEPT ![k] = None]
                          ELSE SetNxPx(store, k, Tok(c)).store
       IN /\ store' = st2
          /\ pttl' = IF gone THEN Kept(st2, pttl)
                            ELSE SetNxPxTtl(store, pttl, k, Lease(c))
          /\ obs' = [obs EXCEPT ![c] =
                       [@ EXCEPT !.nSet = @ + 1, !.nGet = 0,
                                 !.setOut = IF ok THEN "true" ELSE "false",
                                 !.landed = ok, !.getSaw = NoGet]]
          /\ lock' = IF ok THEN [lock EXCEPT ![c].token = Tok(c)] ELSE lock
          /\ call' = [call EXCEPT ![c] = AfterSetNx(c, ok)]
          /\ io' = Sent(c, IF gone THEN "EVAL" ELSE "SET")
    /\ UNCHANGED <<rel, bg, lastEvent>>
SetNxOk(c) ==
    /\ call[c].pc = "set_nx"
    /\ Lease(c) > 0
    /\ LET k == lock[c].key
           ok == SetNxPx(store, k, Tok(c)).reply
       IN /\ store' = SetNxPx(store, k, Tok(c)).store
          /\ pttl' = SetNxPxTtl(store, pttl, k, Lease(c))
          /\ obs' = [obs EXCEPT ![c] =
                       [@ EXCEPT !.nSet = @ + 1, !.nGet = 0,
                                 !.setOut = IF ok THEN "true" ELSE "false",
                                 !.landed = ok, !.getSaw = NoGet]]
          /\ lock' = IF ok THEN [lock EXCEPT ![c].token = Tok(c)] ELSE lock
          /\ call' = [call EXCEPT ![c] = AfterSetNx(c, ok)]
    /\ io' = Sent(c, "SET")
    /\ UNCHANGED <<rel, bg, lastEvent>>

\* set_nx: the SET fails with a store error.  The command either reached
\* the store and was applied (the reply was lost) or never reached it.
SetNxErr(c) ==
    /\ call[c].pc = "set_nx"
    /\ \E applied \in BOOLEAN :
        LET k == lock[c].key
            st2 == IF applied THEN SetNxPx(store, k, Tok(c)).store ELSE store
        IN /\ applied => Lease(c) > 0
           /\ store' = st2
           /\ pttl' = IF applied THEN SetNxPxTtl(store, pttl, k, Lease(c)) ELSE pttl
           /\ obs' = [obs EXCEPT ![c] =
                        [@ EXCEPT !.nSet = @ + 1, !.nGet = 0, !.setOut = "err",
                                  !.landed = (st2[k] = Tok(c)), !.getSaw = NoGet]]
    /\ call' = [call EXCEPT ![c].pc = "get"]
    /\ io' = Sent(c, "SET")
    /\ UNCHANGED <<lock, rel, bg, lastEvent>>

\* set_nx, Err branch: the corrective GET itself fails; its error is returned.
\* Fault variant: a GET that failed is sent once more.
CorrectiveGetFailAgain(c) ==
    /\ call[c].pc = "get"
    /\ obs' = [obs EXCEPT ![c] = [@ EXCEPT !.nGet = @ + 1, !.getSaw = GetFailed]]
    /\ call' = [call EXCEPT ![c] =
                  IF obs[c].nGet = 0 THEN call[c] ELSE Failed(c, "ErrGet")]
    /\ io' = Sent(c, "GET")
    /\ UNCHANGED <<store, pttl, lock, rel, bg, lastEvent>>
CorrectiveGetFail(c) ==
    /\ call[c].pc = "get"
    /\ obs' = [obs EXCEPT ![c] = [@ EXCEPT !.nGet = @ + 1, !.getSaw = GetFailed]]
    /\ call' = [call EXCEPT ![c] = Failed(c, "ErrGet")]
    /\ io' = Sent(c, "GET")
    /\ UNCHANGED <<store, pttl, lock, rel, bg, lastEvent>>

\* set_nx, Err branch: the corrective GET is answered.
\*   nil          -> ret_get.ok_or(e)? returns the SET's error
\*   v == token   -> the handle takes the token
\*   other value  -> Ok(()) with the token as it was
\* Fault variant: any value found at the key is taken for the own write.
CorrectiveGetGuess(c) ==
    /\ call[c].pc = "get"
    /\ LET v == Get(store, lock[c].key)
       IN /\ obs' = [obs EXCEPT ![c] = [@ EXCEPT !.nGet = @ + 1, !.getSaw = v]]
          /\ lock' = IF v # None THEN [lock EXCEPT ![c].token = CurTok(c)] ELSE lock
          /\ call' = [call EXCEPT ![c] =
                        IF v = None THEN Failed(c, "ErrSet") ELSE Returned(c)]
    /\ io' = Sent(c, "GET")
    /\ UNCHANGED <<store, pttl, rel, bg, lastEvent>>

\* Fault variant: the GET never gives the handle its token.
CorrectiveGetDistrusts(c) ==
    /\ call[c].pc = "get"
    /\ LET v == Get(store, lock[c].key)
       IN /\ obs' = [obs EXCEPT ![c] = [@ EXCEPT !.nGet = @ + 1, !.getSaw = v]]
          /\ lock' = lock
          /\ call' = [call EXCEPT ![c] =
                        IF v = None THEN Failed(c, "ErrSet") ELSE AfterFailed(c)]
    /\ io' = Sent(c, "GET")
    /\ UNCHANGED <<store, pttl, rel, bg, lastEvent>>

\* set_nx, Err branch, as the code has it.
CorrectiveGetOk(c) ==
    /\ call[c].pc = "get"
    /\ LET v == Get(store, lock[c].key)
       IN /\ obs' = [obs EXCEPT ![c] = [@ EXCEPT !.nGet = @ + 1, !.getSaw = v]]
          /\ lock' = IF v = CurTok(c) THEN [lock EXCEPT ![c].token = CurTok(c)] ELSE lock
          /\ call' = [call EXCEPT ![c] =
                        IF v = None THEN Failed(c, "ErrSet")
                        ELSE AfterSetNx(c, v = CurTok(c))]
    /\ io' = Sent(c, "GET")
    /\ UNCHANGED <<store, pttl, rel, bg, lastEvent>>

\* thread::sleep(duration) / sleep(duration).await, then the loop header:
\* the next iteration, or Ok(None) when the range 0..attempts is used up.
Sleep(c) ==
    /\ call[c].pc = "sleep"
    /\ call' = [call EXCEPT ![c] =
                  IF call[c].i + 1 < call[c].attempts
                  THEN [@ EXCEPT !.pc = "set_nx", !.i = @ + 1]
                  ELSE [@ EXCEPT !.pc = "done", !.i = @ + 1, !.result = "None"]]
    /\ obs' = [obs EXCEPT ![c].nSleep = @ + 1]
    /\ UNCHANGED <<store, pttl, lock, rel, io, bg, lastEvent>>

\* ------------------------------------------------------------- release
\* release(): the token is None, Ok(()) at once, no command.
\* Fault variant: the script is sent for a handle without a token.
ReleaseNoopSends(c) ==
    /\ call[c].pc = "held"
    /\ lock[c].token = None
    /\ call' = [call EXCEPT ![c] = Owned(c, "held")]
    /\ obs' = [obs EXCEPT ![c] = InitObs]
    /\ rel' = [rel EXCEPT ![c].relOut = "ok"]
    /\ io' = Sent(c, "EVAL")
    /\ UNCHANGED <<store, pttl, lock, bg, lastEvent>>
ReleaseNoop(c) ==
    /\ HasHandle(c)
    /\ lock[c].token = None
    /\ call' = [call EXCEPT ![c] = Still(c)]
    /\ obs' = [obs EXCEPT ![c] = InitObs]
    /\ rel' = [rel EXCEPT ![c].relOut = "ok"]
    /\ io' = Sent(c, "none")
    /\ UNCHANGED <<store, pttl, lock, bg, lastEvent>>

\* release(): pool.get() fails; the error is returned, the token stays.
ReleaseConnFail(c) ==
    /\ call[c].pc = "held"
    /\ lock[c].token # None
    /\ call' = [call EXCEPT ![c] = Owned(c, "held")]
    /\ obs' = [obs EXCEPT ![c] = InitObs]
    /\ rel' = [rel EXCEPT ![c].relOut = "err"]
    /\ io' = Sent(c, "none")
    /\ UNCHANGED <<store, pttl, lock, bg, lastEvent>>

\* release(): the script ran; the token is cleared whatever it returned.
\* Fault variant: the token is cleared only when the script deleted.
ReleaseScriptKeepsToken(c) ==
    /\ call[c].pc = "held"
    /\ lock[c].token # None
    /\ LET k == lock[c].key
           t == lock[c].token
           st2 == DEL(store, k, t)
       IN /\ store' = st2
          /\ pttl' = Kept(st2, pttl)
          /\ lastEvent' = [lastEvent EXCEPT ![k] = Removed(store, st2, k, "released")]
          /\ rel' = [rel EXCEPT ![c] = [relOut |-> "ok", scriptRet |-> DelReply(store, k, t)]]
          /\ lock' = IF DelReply(store, k, t) = 1 THEN [lock EXCEPT ![c].token = None] ELSE lock
    /\ call' = [call EXCEPT ![c] = Owned(c, "held")]
    /\ obs' = [obs EXCEPT ![c] = InitObs]
    /\ io' = Sent(c, "EVAL")
    /\ UNCHANGED bg

\* release(), as the code has it: self.token = None after the invoke.
ReleaseScript(c) ==
    /\ call[c].pc = "held"
    /\ lock[c].token # None
    /\ LET k == lock[c].key
           t == lock[c].token
           st2 == DEL(store, k, t)
       IN /\ store' = st2
          /\ pttl' = Kept(st2, pttl)
          /\ lastEvent' = [lastEvent EXCEPT ![k] = Removed(store, st2, k, "released")]
          /\ rel' = [rel EXCEPT ![c] = [relOut |-> "ok", scriptRet |-> DelReply(store, k, t)]]
          /\ lock' = [lock EXCEPT ![c].token = None]
    /\ call' = [call EXCEPT ![c] = Owned(c, "held")]
    /\ obs' = [obs EXCEPT ![c] = InitObs]
    /\ io' = Sent(c, "EVAL")
    /\ UNCHANGED bg

\* release(): the script call fails (applied or not); the token stays.
\* Fault variant: a failed script call clears the token all the same.
ReleaseScriptErrClears(c) ==
    /\ call[c].pc = "held"
    /\ lock[c].token # None
    /\ \E applied \in BOOLEAN :
        LET k == lock[c].key
            st2 == IF applied THEN DEL(store, k, lock[c].token) ELSE store
        IN /\ store' = st2
           /\ pttl' = Kept(st2, pttl)
           /\ lastEvent' = [lastEvent EXCEPT ![k] = Removed(store, st2, k, "released")]
    /\ call' = [call EXCEPT ![c] = Owned(c, "held")]
    /\ obs' = [obs EXCEPT ![c] = InitObs]
    /\ rel' = [rel EXCEPT ![c].relOut = "err"]
    /\ lock' = [lock EXCEPT ![c].token = None]
    /\ io' = Sent(c, "EVAL")
    /\ UNCHANGED bg
ReleaseScriptErr(c) ==
    /\ call[c].pc = "held"
    /\ lock[c].token # None
    /\ \E applied \in BOOLEAN :
        LET k == lock[c].key
            st2 == IF applied THEN DEL(store, k, lock[c].token) ELSE store
        IN /\ store' = st2
           /\ pttl' = Kept(st2, pttl)
           /\ lastEvent' = [lastEvent EXCEPT ![k] = Removed(store, st2, k, "released")]
    /\ call' = [call EXCEPT ![c] = Owned(c, "held")]
    /\ obs' = [obs EXCEPT ![c] = InitObs]
    /\ rel' = [rel EXCEPT ![c].relOut = "err"]
    /\ io' = Sent(c, "EVAL")
    /\ UNCHANGED <<lock, bg>>

Release(c) ==
    \/ ReleaseNoop(c)
    \/ ReleaseConnFail(c)
    \/ ReleaseScript(c)
    \/ ReleaseScriptErr(c)

\* prevent(): sets the flag.
\* Fault variant: prevent() gives the lock up, the token with the flag.
PreventForgets(c) ==
    /\ call[c].pc = "held"
    /\ lock' = [lock EXCEPT ![c].prevent = TRUE, ![c].token = None]
    /\ call' = [call EXCEPT ![c] = Owned(c, "held")]
    /\ obs' = [obs EXCEPT ![c] = InitObs]
    /\ io' = Sent(c, "none")
    /\ UNCHANGED <<store, pttl, rel, bg, lastEvent>>
Prevent(c) ==
    /\ HasHandle(c)
    /\ lock' = [lock EXCEPT ![c].prevent = TRUE]
    /\ call' = [call EXCEPT ![c] = Still(c)]
    /\ obs' = [obs EXCEPT ![c] = InitObs]
    /\ io' = Sent(c, "none")
    /\ UNCHANGED <<store, pttl, rel, bg, lastEvent>>

\* ---------------------------------------------------------------- Drop
\* The handle types run the same acquire and release code and differ in
\* Drop alone, so which of them a handle is shows only here: DropSync is
\* Drop for RedLock, DropAsync is Drop for AsyncRedLock (kr-core), DropLegacy
\* is Drop for RedAsyncLock (src/mutex/mod.rs), and DropNone is the scope
\* end of the AsyncRedLock and RedLock of src/mutex/async_red_lock.rs and
\* async_redis_lock.rs, whose Drop is commented out.

\* Whether Drop returns at once: if self.prevent || self.token.is_none().
\* Fault variant: Drop that does not look at the token.
SkipsPrevented(c) == lock[c].prevent
\* Fault variant: Drop that does not look at prevent.
SkipsUnheld(c) == lock[c].token = None
Skips(c) == lock[c].prevent \/ lock[c].token = None

\* Drop: prevent is set or the token is None; nothing is done.
\* Fault variant: a Drop that spawns its task whatever the token is.
DropSkipSpawns(c) ==
    /\ call[c].pc = "held"
    /\ Skips(c)
    /\ call' = [call EXCEPT ![c] = Owned(c, "dropped")]
    /\ obs' = [obs EXCEPT ![c] = InitObs]
    /\ bg' = bg \cup {[key |-> lock[c].key, token |-> lock[c].token,
                        owner |-> c, logs |-> TRUE]}
    /\ io' = [io EXCEPT ![c].cmd = "none", ![c].task = "spawned"]
    /\ UNCHANGED <<store, pttl, lock, rel, lastEvent>>
DropSkip(c) ==
    /\ HasHandle(c)
    /\ Skips(c)
    /\ call' = [call EXCEPT ![c] = Owned(c, "dropped")]
    /\ obs' = [obs EXCEPT ![c] = InitObs]
    /\ io' = Sent(c, "none")
    /\ UNCHANGED <<store, pttl, lock, rel, bg, lastEvent>>

\* Drop for RedLock: self.release() inside drop; an error is logged.
\* Fault variant: Drop that leaves the release to a later step.
DropSyncDefers(c) ==
    /\ call[c].pc = "held"
    /\ ~Skips(c)
    /\ call' = [call EXCEPT ![c] = Owned(c, "dropped")]
    /\ obs' = [obs EXCEPT ![c] = InitObs]
    /\ rel' = [rel EXCEPT ![c] = [relOut |-> "ok", scriptRet |-> 0]]
    /\ io' = Sent(c, "none")
    /\ UNCHANGED <<store, pttl, lock, bg, lastEvent>>
DropSync(c) ==
    /\ call[c].pc = "held"
    /\ ~Skips(c)
    /\ call' = [call EXCEPT ![c] = Owned(c, "dropped")]
    /\ obs' = [obs EXCEPT ![c] = InitObs]
    /\ LET k == lock[c].key
           t == lock[c].token
       IN \/ /\ UNCHANGED <<store, pttl, lock, lastEvent>>
             /\ rel' = [rel EXCEPT ![c].relOut = "logged"]
             /\ io' = Sent(c, "none")
          \/ /\ store' = DEL(store, k, t)
             /\ pttl' = Kept(DEL(store, k, t), pttl)
             /\ lastEvent' = [lastEvent EXCEPT ![k] = Removed(store, DEL(store, k, t), k, "released")]
             /\ lock' = [lock EXCEPT ![c].token = None]
             /\ rel' = [rel EXCEPT ![c] = [relOut |-> "ok", scriptRet |-> DelReply(store, k, t)]]
             /\ io' = Sent(c, "EVAL")
          \/ /\ \E applied \in BOOLEAN :
                  LET st2 == IF applied THEN DEL(store, k, t) ELSE store
                  IN /\ store' = st2
                     /\ pttl' = Kept(st2, pttl)
                     /\ lastEvent' = [lastEvent EXCEPT ![k] = Removed(store, st2, k, "released")]
             /\ rel' = [rel EXCEPT ![c].relOut = "logged"]
             /\ io' = Sent(c, "EVAL")
             /\ UNCHANGED lock
    /\ UNCHANGED bg

\* The task a non-blocking Drop spawns: clones of pool, key and token.
\* logs: whether the task logs a pool.get() failure.
\* Fault variant: a task given the key of another handle.
TaskOtherKey(c, l) ==
    [key |-> IF \E d \in Clients : lock[d].key # lock[c].key
             THEN lock[CHOOSE d \in Clients : lock[d].key # lock[c].key].key
             ELSE lock[c].key,
     token |-> lock[c].token, owner |-> c, logs |-> l]
Task(c, l) == [key |-> lock[c].key, token |-> lock[c].token, owner |-> c, logs |-> l]

\* Drop for AsyncRedLock: clones pool, key and token and hands the release
\* to tokio::spawn, whose JoinHandle it discards.  tokio::spawn needs the
\* context of a runtime: called outside one it panics and nothing is
\* spawned.
\* Fault variant: a Drop that waits for the release it started.
DropAsyncWaits(c) ==
    /\ call[c].pc = "held"
    /\ ~Skips(c)
    /\ call' = [call EXCEPT ![c] = Owned(c, "dropped")]
    /\ obs' = [obs EXCEPT ![c] = InitObs]
    /\ store' = DEL(store, lock[c].key, lock[c].token)
    /\ pttl' = Kept(DEL(store, lock[c].key, lock[c].token), pttl)
    /\ lastEvent' = [lastEvent EXCEPT ![lock[c].key] =
                       Removed(store, DEL(store, lock[c].key, lock[c].token),
                               lock[c].key, "released")]
    /\ io' = [io EXCEPT ![c].cmd = "none", ![c].task = "ran"]
    /\ UNCHANGED <<lock, rel, bg>>
DropAsync(c) ==
    /\ call[c].pc = "held"
    /\ ~Skips(c)
    /\ call' = [call EXCEPT ![c] = Owned(c, "dropped")]
    /\ obs' = [obs EXCEPT ![c] = InitObs]
    /\ \/ /\ bg' = bg \cup {Task(c, TRUE)}
          /\ io' = [io EXCEPT ![c].cmd = "none", ![c].task = "spawned"]
       \/ /\ bg' = bg
          /\ io' = [io EXCEPT ![c].cmd = "none", ![c].task = "panic"]
    /\ UNCHANGED <<store, pttl, lock, rel, lastEvent>>

\* Drop for RedAsyncLock (the handle has no prevent): if self.token.is_some().
DropLegacy(c) ==
    /\ call[c].pc = "held"
    /\ ~lock[c].prevent /\ lock[c].token # None
    /\ call' = [call EXCEPT ![c] = Owned(c, "dropped")]
    /\ obs' = [obs EXCEPT ![c] = InitObs]
    /\ \/ /\ bg' = bg \cup {Task(c, FALSE)}
          /\ io' = [io EXCEPT ![c].cmd = "none", ![c].task = "spawned"]
       \/ /\ bg' = bg
          /\ io' = [io EXCEPT ![c].cmd = "none", ![c].task = "panic"]
    /\ UNCHANGED <<store, pttl, lock, rel, lastEvent>>

\* Scope end of a handle type without a Drop: the struct is freed.
DropNone(c) ==
    /\ call[c].pc = "held"
    /\ call' = [call EXCEPT ![c] = Owned(c, "dropped")]
    /\ obs' = [obs EXCEPT ![c] = InitObs]
    /\ io' = Sent(c, "none")
    /\ UNCHANGED <<store, pttl, lock, rel, bg, lastEvent>>

\* The spawned task: pool.get().await fails.  AsyncRedLock's task logs the
\* error; RedAsyncLock's task (if let Ok(mut conn) = ...) does nothing.
BgReleaseConnFail(t) ==
    /\ t \in bg
    /\ bg' = bg \ {t}
    /\ io' = [io EXCEPT ![t.owner].task = IF t.logs THEN "logged" ELSE "silent"]
    /\ UNCHANGED <<store, pttl, lock, call, obs, rel, lastEvent>>

\* The spawned task: the script call fails (applied or not); logged.
BgReleaseScriptErr(t) ==
    /\ t \in bg
    /\ bg' = bg \ {t}
    /\ \E applied \in BOOLEAN :
        LET st2 == IF applied THEN DEL(store, t.key, t.token) ELSE store
        IN /\ store' = st2
           /\ pttl' = Kept(st2, pttl)
           /\ lastEvent' = [lastEvent EXCEPT ![t.key] = Removed(store, st2, t.key, "released")]
    /\ io' = [io EXCEPT ![t.owner].task = "logged"]
    /\ UNCHANGED <<lock, call, obs, rel>>

\* The spawned task: the script runs.
BgReleaseRun(t) ==
    /\ t \in bg
    /\ bg' = bg \ {t}
    /\ store' = DEL(store, t.key, t.token)
    /\ pttl' = Kept(DEL(store, t.key, t.token), pttl)
    /\ lastEvent' = [lastEvent EXCEPT ![t.key] =
                       Removed(store, DEL(store, t.key, t.token), t.key, "released")]
    /\ io' = [io EXCEPT ![t.owner].task = "ran"]
    /\ UNCHANGED <<lock, call, obs, rel>>

BgRelease(t) ==
    \/ BgReleaseConnFail(t)
    \/ BgReleaseScriptErr(t)
    \/ BgReleaseRun(t)

\* The runtime is shut down (dropped) before it polled the task: nothing
\* waits for a spawned task, so the task is dropped with the runtime and
\* sends nothing.
RuntimeShutdown(t) ==
    /\ t \in bg
    /\ bg' = bg \ {t}
    /\ io' = [io EXCEPT ![t.owner].task = "unpolled"]
    /\ UNCHANGED <<store, pttl, lock, call, obs, rel, lastEvent>>

\* --------------------------------------------------------- environment
\* The store ends the lease of a key.
Expire(k) ==
    /\ store[k] # None
    /\ pttl[k] # -1
    /\ store' = [store EXCEPT ![k] = None]
    /\ pttl' = [pttl EXCEPT ![k] = -2]
    /\ lastEvent' = [lastEvent EXCEPT ![k] = "expired"]
    /\ UNCHANGED <<lock, call, obs, rel, io, bg>>

\* Another party deletes the key.
ThirdPartyDel(k) ==
    /\ store[k] # None
    /\ store' = [store EXCEPT ![k] = None]
    /\ pttl' = [pttl EXCEPT ![k] = -2]
    /\ lastEvent' = [lastEvent EXCEPT ![k] = "third"]
    /\ UNCHANGED <<lock, call, obs, rel, io, bg>>

\* Another party writes its own value at the key, without an expiry.
ThirdPartySet(k) ==
    /\ store[k] # Foreign
    /\ store' = [store EXCEPT ![k] = Foreign]
    /\ pttl' = [pttl EXCEPT ![k] = -1]
    /\ lastEvent' = [lastEvent EXCEPT ![k] = "third"]
    /\ UNCHANGED <<lock, call, obs, rel, io, bg>>

\* ----------------------------------------------------------------- Next
\* Every step but those of the spawned release tasks.
Foreground ==
    \/ \E c \in Clients : Acquire(c)
    \/ \E c \in Clients : SetNxConnFail(c)
    \/ \E c \in Clients : SetNxOk(c)
    \/ \E c \in Clients : SetNxErr(c)
    \/ \E c \in Clients : CorrectiveGetFail(c)
    \/ \E c \in Clients : CorrectiveGetOk(c)
    \/ \E c \in Clients : Sleep(c)
    \/ \E c \in Clients : Release(c)
    \/ \E c \in Clients : Prevent(c)
    \/ \E c \in Clients : DropSkip(c)
    \/ \E c \in Clients : DropSync(c)
    \/ \E c \in Clients : DropAsync(c)
    \/ \E c \in Clients : DropLegacy(c)
    \/ \E c \in Clients : DropNone(c)
    \/ \E k \in Keys : Expire(k)
    \/ \E k \in Keys : ThirdPartyDel(k)
    \/ \E k \in Keys : ThirdPartySet(k)

Next ==
    \/ Foreground
    \/ \E t \in bg : BgRelease(t)
    \/ \E t \in bg : RuntimeShutdown(t)

Spec == Init /\ [][Next]_vars

\* ============================================================== claims
Errors == {"ErrConn", "ErrSet", "ErrGet"}

\* The acquire call of client c has returned and its outcome is still under
\* observation (the caller has not used the handle yet).
Observed(c) == call[c].pc \in {"held", "done"} /\ obs[c].setOut # "none"

\* A live handle: one inside an acquire call or owned by a caller.
Live(c) == call[c].pc \in {"set_nx", "get", "sleep", "held"}

\* Every client made one single-attempt acquire of k1, each SET was answered
\* (no store error), and nothing removed or overwrote the key meanwhile.
QuietRace ==
    /\ lastEvent["k1"] = "quiet"
    /\ \A c \in Clients :
        /\ Observed(c) /\ ~call[c].retry /\ lock[c].key = "k1"
        /\ obs[c].setOut \in {"true", "false"}

\* C1: N concurrent single-attempt acquires of one absent key, with no store
\* error and no expiry or release during the calls: exactly one returns Some
\* and all the others return None.
C1_MutualExclusion ==
    QuietRace =>
        /\ Cardinality({c \in Clients : call[c].result = "Some"}) = 1
        /\ \A c \in Clients : call[c].result \in {"Some", "None"}

C1_Witness ==
    /\ QuietRace
    /\ \E a, b \in Clients : call[a].result = "Some" /\ call[b].result = "None"

\* C2: for each key, at most one live handle has a non-None token equal to
\* the value stored at that key.
C2_AtMostOneHolder ==
    \A k \in Keys :
        Cardinality({c \in Clients :
            /\ Live(c) /\ lock[c].key = k
            /\ lock[c].token # None /\ lock[c].token = store[k]}) <= 1

\* Two callers both own a handle with a token (the first one's lease ran
\* out), and the key holds the second one's token.
C2_Witness ==
    \E a, b \in Clients :
        /\ a # b /\ call[a].pc = "held" /\ call[b].pc = "held"
        /\ lock[a].key = lock[b].key
        /\ lock[a].token # None /\ lock[b].token # None
        /\ store[lock[b].key] = lock[b].token

\* C3: no release (manual, scope-end, or the detached task, however late)
\* changes a key whose stored value differs from the releasing token: a step
\* of a release changes the store only at the handle's key and only when
\* that key held the handle's token.
C3_ReleaseSparesOthers ==
    [][ /\ \A c \in Clients : (Release(c) \/ DropSync(c)) =>
              \A k \in Keys : store'[k] # store[k] =>
                  k = lock[c].key /\ store[k] = lock[c].token
        /\ \A t \in bg : BgRelease(t) =>
              \A k \in Keys : store'[k] # store[k] =>
                  k = t.key /\ store[k] = t.token ]_vars

\* A release script of handle a ran and deleted nothing while the key holds
\* the token of another owner b.
C3_Witness ==
    \E a, b \in Clients :
        /\ a # b /\ rel[a].scriptRet = 0
        /\ call[b].pc = "held" /\ lock[b].token # None
        /\ store[lock[b].key] = lock[b].token

\* C4: a release whose script ran against a key that holds another value
\* returns Ok, leaves the store as it was and clears the token; the token is
\* None after every release that returned Ok, whatever the script returned.
C4_Fencing ==
    /\ [][ \A c \in Clients :
             (ReleaseScript(c) /\ store[lock[c].key] # lock[c].token) =>
                 /\ store' = store
                 /\ lock'[c].token = None
                 /\ rel'[c] = [relOut |-> "ok", scriptRet |-> 0] ]_vars
    /\ [](\A c \in Clients : rel[c].relOut = "ok" => lock[c].token = None)

\* a's lease expired, b acquired the key, then a's release ran: Ok, nothing
\* deleted, a's token None, the key still b's.
C4_Witness ==
    \E a, b \in Clients :
        /\ a # b /\ lastEvent[lock[a].key] = "expired"
        /\ rel[a] = [relOut |-> "ok", scriptRet |-> 0] /\ lock[a].token = None
        /\ call[a].pc = "held"
        /\ call[b].pc = "held" /\ lock[b].key = lock[a].key
        /\ lock[b].token # None /\ store[lock[b].key] = lock[b].token

\* C5: acquire returns Some only with the token of its last attempt, which
\* either the SET answered true for or the corrective GET returned; a failed
\* SET whose write did not land never gives the handle a token; every
\* returned handle has a token.
C5_SomeOnlyIfObserved ==
    \A c \in Clients :
        /\ (Observed(c) /\ call[c].result = "Some") =>
              /\ lock[c].token # None /\ lock[c].token = CurTok(c)
              /\ \/ obs[c].setOut = "true"
                 \/ obs[c].setOut = "err" /\ obs[c].getSaw = lock[c].token
        /\ (obs[c].setOut = "err" /\ ~obs[c].landed) => lock[c].token = None
        /\ (call[c].pc = "done") => lock[c].token = None

\* A call returned Some on the strength of the corrective GET.
C5_Witness ==
    \E c \in Clients :
        /\ Observed(c) /\ call[c].result = "Some"
        /\ obs[c].setOut = "err" /\ obs[c].getSaw = lock[c].token

\* The corrective GET of c's last attempt returned a value that is not the
\* attempt's token: the key holds what another party wrote.
GetSawOther(c) ==
    /\ obs[c].setOut = "err" /\ call[c].pc # "get"
    /\ obs[c].getSaw \notin {NoGet, GetFailed, None, CurTok(c)}

\* The corrective GET of c's last attempt found the key absent.
GetSawNil(c) ==
    obs[c].setOut = "err" /\ call[c].pc # "get" /\ obs[c].getSaw = None

\* C6: a failed SET whose write took effect is followed by exactly one GET;
\* answered while the key still holds that write, the GET returns the
\* attempt's token and acquire returns Some with a handle holding it.
C6_LandedWriteResolved ==
    /\ [][ \A c \in Clients :
             (CorrectiveGetOk(c) /\ obs[c].landed /\ store[lock[c].key] = CurTok(c)) =>
                 /\ obs'[c].getSaw = CurTok(c) /\ obs'[c].nGet = 1
                 /\ call'[c].pc = "held" /\ call'[c].result = "Some"
                 /\ lock'[c].token = CurTok(c) ]_vars
    /\ [](\A c \in Clients :
            obs[c].nGet = IF obs[c].setOut = "err" /\ call[c].pc # "get" THEN 1 ELSE 0)

\* The SET failed, its write had landed, one GET was issued and returned the
\* token, and the call returned Some with it.
C6_Witness ==
    \E c \in Clients :
        /\ Observed(c) /\ call[c].result = "Some"
        /\ obs[c].setOut = "err" /\ obs[c].landed /\ obs[c].nGet = 1
        /\ obs[c].getSaw = CurTok(c) /\ lock[c].token = CurTok(c)
        /\ store[lock[c].key] = CurTok(c)

\* C7: a failed SET whose corrective GET returned anything but the
\* attempt's token (nil, or another holder's value) makes acquire return the
\* SET's error, and None is returned only after a SET answered false.
C7_UnresolvedIsError ==
    \A c \in Clients :
        /\ (GetSawNil(c) \/ GetSawOther(c)) => call[c].result = "ErrSet"
        /\ (Observed(c) /\ call[c].result = "None") => obs[c].setOut = "false"

\* C8: in retry mode a failure to get a connection, and any failed SET that
\* the corrective GET does not resolve to the attempt's token, ends the
\* acquisition with the error: the call returns it, and no attempt and no
\* sleep follows.
C8_ErrorAborts ==
    /\ [](\A c \in Clients :
            (/\ call[c].retry /\ obs[c].setOut = "err" /\ call[c].pc # "get"
             /\ obs[c].getSaw # CurTok(c)) =>
                call[c].pc = "done" /\ call[c].result \in Errors)
    /\ [][ \A c \in Clients :
             /\ (call[c].retry /\ SetNxConnFail(c)) =>
                   call'[c].pc = "done" /\ call'[c].result = "ErrConn"
             /\ call[c].result \in Errors =>
                   call'[c] = call[c] /\ obs'[c] = obs[c] ]_vars

\* C9: the loop sleeps once between consecutive attempts and not after the
\* last: a retry acquisition of N >= 1 attempts that returns None has issued
\* N SETs and slept N-1 times, and while every SET is answered false it
\* neither returns early nor returns anything else.
C9_RetryExhaustion ==
    \A c \in Clients : call[c].retry =>
        /\ obs[c].nSleep = call[c].i
        /\ call[c].pc = "set_nx" => obs[c].nSet = call[c].i
        /\ call[c].pc \in {"get", "sleep"} => obs[c].nSet = call[c].i + 1
        /\ (call[c].result = "None" /\ call[c].attempts >= 1) =>
              obs[c].nSet = call[c].attempts /\ obs[c].nSleep = call[c].attempts - 1
        /\ obs[c].setOut = "false" =>
              IF obs[c].nSet = call[c].attempts
              THEN call[c].pc = "done" /\ call[c].result = "None"
              ELSE call[c].pc \in {"sleep", "set_nx"} /\ call[c].result = "pending"

\* A retry acquisition of at least two attempts returned None while the
\* other client kept the key: as many SETs as attempts, one sleep fewer.
C9_Witness ==
    \E c, d \in Clients :
        /\ c # d /\ call[c].retry /\ call[c].attempts >= 2 /\ call[c].result = "None"
        /\ obs[c].setOut = "false" /\ obs[c].nSet = call[c].attempts
        /\ obs[c].nSleep = call[c].attempts - 1
        /\ lastEvent[lock[c].key] = "quiet" /\ store[lock[c].key] = lock[d].token

\* C10: acquire returns as soon as an attempt gives the handle its token, with
\* that attempt's token, no attempt and no sleep after it; a SET that is
\* answered while the key is absent (freed since the failed attempt before)
\* writes the token and makes the call return Some.
C10_RetrySuccess ==
    /\ [](\A c \in Clients :
            /\ lock[c].token # None => call[c].pc \in {"held", "dropped"}
            /\ (Observed(c) /\ call[c].result = "Some" /\ call[c].retry) =>
                  /\ lock[c].token = CurTok(c)
                  /\ obs[c].nSet <= call[c].attempts
                  /\ obs[c].nSleep = obs[c].nSet - 1)
    /\ [][ \A c \in Clients :
             (SetNxOk(c) /\ store[lock[c].key] = None) =>
                 /\ call'[c].pc = "held" /\ call'[c].result = "Some"
                 /\ lock'[c].token = Tok(c) /\ store'[lock[c].key] = Tok(c) ]_vars

\* The first attempt failed, a third party deleted the key, and the second
\* attempt returned Some.
C10_Witness ==
    \E c \in Clients :
        /\ call[c].retry /\ Observed(c) /\ call[c].result = "Some"
        /\ obs[c].nSet = 2 /\ obs[c].nSleep = 1 /\ obs[c].setOut = "true"
        /\ lastEvent[lock[c].key] = "third" /\ store[lock[c].key] = lock[c].token

\* ----------------------------------------------------------------- C11
\* C11: an acquire without retry sends exactly one SET NX, with a token no
\* key, handle or pending task holds.  Answered true, the call returns
\* Some(handle) and the handle's token is the value now stored at the key.
\* Answered false, the call returns None, and the value and the expiry of
\* the key are what they were before the SET.
TokensInUse ==
    {store[k] : k \in Keys} \cup {lock[c].token : c \in Clients}
        \cup {t.token : t \in bg}

C11_OneSet ==
    \A c \in Clients :
        (Observed(c) /\ ~call[c].retry /\ obs[c].setOut \in {"true", "false"})
            => /\ obs[c].nSet = 1
               /\ obs[c].nGet = 0
               /\ obs[c].nSleep = 0

C11_SingleAttempt ==
    /\ []C11_OneSet
    /\ [][\A c \in Clients :
            (SetNxOk(c) /\ ~call[c].retry) =>
                LET k == lock[c].key
                IN /\ Tok(c) \notin TokensInUse
                   /\ obs'[c].setOut = "true" =>
                        /\ call'[c].pc = "held"
                        /\ call'[c].result = "Some"
                        /\ lock'[c].token = Tok(c)
                        /\ store'[k] = lock'[c].token
                        /\ pttl'[k] = Px(lock[c].ttl)
                   /\ obs'[c].setOut = "false" =>
                        /\ call'[c].pc = "done"
                        /\ call'[c].result = "None"
                        /\ lock'[c].token = None
                        /\ store'[k] = store[k]
                        /\ pttl'[k] = pttl[k]]_vars

\* One client holds the key by a single attempt answered true, while the
\* single attempt of the other, with another ttl, was answered false.
C11_Witness ==
    \E c \in Clients, d \in Clients :
        /\ Observed(c) /\ ~call[c].retry /\ obs[c].setOut = "true"
        /\ store[lock[c].key] = lock[c].token
        /\ Observed(d) /\ ~call[d].retry /\ obs[d].setOut = "false"
        /\ call[d].result = "None"
        /\ lock[d].key = lock[c].key
        /\ pttl[lock[d].key] # Px(lock[d].ttl)

\* ----------------------------------------------------------------- C12
\* C12: a release that cannot run the script (no connection from the pool,
\* or the script call fails) returns the error and leaves the handle as it
\* was: the token is still there, so the handle is not taken for released
\* (a later release or the scope end sends the script again).
C12_ErrKeepsToken ==
    \A c \in Clients : rel[c].relOut = "err" => lock[c].token # None

C12_FailedReleaseKeepsToken ==
    /\ []C12_ErrKeepsToken
    /\ [][\A c \in Clients :
            (ReleaseConnFail(c) \/ ReleaseScriptErr(c)) =>
                /\ rel'[c].relOut = "err"
                /\ lock'[c] = lock[c]
                /\ lock'[c].token # None
                /\ call'[c].pc = "held"
                /\ bg' = bg
                /\ ReleaseConnFail(c) => (store' = store /\ pttl' = pttl)]_vars

\* A release failed at the script call and the handle still has its token,
\* which is still the value at the key.
C12_Witness ==
    \E c \in Clients :
        /\ call[c].pc = "held"
        /\ rel[c].relOut = "err"
        /\ io[c].cmd = "EVAL"
        /\ lock[c].token # None
        /\ store[lock[c].key] = lock[c].token

\* ----------------------------------------------------------------- C13
\* C13: once a release has cleared the token, a further release() returns
\* Ok(()) at once: it sends no command to the store, deletes nothing and
\* cannot fail.  The same holds for any release on a token of None.
C13_IdempotentRelease ==
    [][\A c \in Clients :
        (Release(c) /\ lock[c].token = None) =>
            /\ rel'[c].relOut = "ok"
            /\ io'[c].cmd = "none"
            /\ store' = store
            /\ pttl' = pttl
            /\ bg' = bg
            /\ lock' = lock]_vars

\* A handle was released (the script deleted its key) and released again
\* without a command, while the key is held by somebody else by then.
C13_Witness ==
    \E c \in Clients :
        /\ call[c].pc = "held"
        /\ ~lock[c].prevent
        /\ lock[c].token = None
        /\ rel[c] = [relOut |-> "ok", scriptRet |-> 1]
        /\ io[c].cmd = "none"
        /\ store[lock[c].key] # None

\* ----------------------------------------------------------------- C14
\* C14: the scope end of a handle on which prevent() was called sends no
\* release command, neither at once (blocking Drop) nor by a spawned task
\* (non-blocking Drop); and after that scope end the key keeps the handle's
\* token until the store ends the lease or another party removes or
\* overwrites the key.
C14_PreventSkipsRelease ==
    /\ [][\A c \in Clients :
            (call[c].pc = "held" /\ lock[c].prevent /\ call'[c].pc = "dropped") =>
                /\ io'[c].cmd = "none"
                /\ io'[c].task = io[c].task
                /\ bg' = bg
                /\ store' = store
                /\ pttl' = pttl
                /\ rel'[c] = rel[c]
                /\ lock'[c] = lock[c]]_vars
    /\ [][\A c \in Clients :
            LET k == lock[c].key
            IN (/\ call[c].pc = "dropped"
                /\ lock[c].prevent
                /\ lock[c].token # None
                /\ store[k] = lock[c].token
                /\ store'[k] # store[k])
                   => (Expire(k) \/ ThirdPartyDel(k) \/ ThirdPartySet(k))]_vars

\* A handle with prevent set went out of scope and its token is still the
\* value at the key.
C14_Witness ==
    \E c \in Clients :
        /\ call[c].pc = "dropped"
        /\ lock[c].prevent
        /\ lock[c].token # None
        /\ store[lock[c].key] = lock[c].token
        /\ io[c].task = "none"

\* ----------------------------------------------------------------- C15
\* C15: the blocking Drop of a held handle without prevent runs the release
\* inside drop: when drop returns, either the script has been executed (the
\* key no longer holds the handle's token, and is absent if it held it) or
\* a store error has been logged.  Nothing is left to a later task, and the
\* error reaches nobody: the caller goes on past the scope end.
C15_BlockingDrop ==
    [][\A c \in Clients :
        DropSync(c) =>
            LET k == lock[c].key
                t == lock[c].token
            IN /\ call'[c].pc = "dropped"
               /\ call'[c].result \notin Errors
               /\ bg' = bg
               /\ io'[c].task = io[c].task
               /\ rel'[c].relOut \in {"ok", "logged"}
               /\ rel'[c].relOut = "ok" =>
                    /\ io'[c].cmd = "EVAL"
                    /\ store' = DEL(store, k, t)
                    /\ store[k] = t => store'[k] = None
                    /\ store'[k] # t
                    /\ lock'[c].token = None
               /\ rel'[c].relOut = "logged" => lock'[c].token = t]_vars

\* A blocking Drop has returned after its script deleted the key.
C15_Witness ==
    \E c \in Clients :
        /\ call[c].pc = "dropped"
        /\ rel[c] = [relOut |-> "ok", scriptRet |-> 1]
        /\ io[c].cmd = "EVAL"
        /\ lock[c].token = None
        /\ store[lock[c].key] = None
        /\ lastEvent[lock[c].key] = "released"

\* ----------------------------------------------------------------- C16
\* The system with a store that serves the spawned release tasks and a
\* runtime that is fair to them: as long as the runtime lives, a task that
\* is ready to run its script is not left waiting for ever.  The runtime
\* may still be shut down with the task unpolled.
NextHealthy ==
    \/ Foreground
    \/ \E t \in bg : BgReleaseRun(t)
    \/ \E t \in bg : RuntimeShutdown(t)

SpecHealthy ==
    Init /\ [][NextHealthy]_vars /\ WF_vars(\E t \in bg : BgReleaseRun(t))

\* C16: the non-blocking Drop of a held handle without prevent does not
\* touch the store itself; it hands the key and the token to a spawned task
\* that runs the same compare-and-delete.  With the store healthy and the
\* runtime fair, a key that holds the token of such a handle does not hold
\* it for ever.
C16_DetachedRelease ==
    /\ [][\A c \in Clients :
            DropAsync(c) =>
                /\ \E t \in bg' \ bg :
                      /\ t.key = lock[c].key
                      /\ t.token = lock[c].token
                      /\ bg' = bg \cup {t}
                /\ store' = store
                /\ io'[c].cmd = "none"
                /\ call'[c].pc = "dropped"]_vars
    /\ [][\A t \in bg :
            BgReleaseRun(t) => store' = DEL(store, t.key, t.token)]_vars
    /\ \A c \in Clients :
          (io[c].task = "spawned" /\ store[lock[c].key] = lock[c].token)
              ~> (store[lock[c].key] # lock[c].token)

\* ----------------------------------------------------------------- C17
\* The scope of client c's handle ends in this step, the handle being held
\* and prevent not set.
ScopeEnds(c) ==
    /\ call[c].pc = "held"
    /\ call'[c].pc = "dropped"
    /\ ~lock[c].prevent
    /\ lock[c].token # None

\* The step triggers the release of c's handle: release() runs inside Drop
\* (the script is sent, or the store failure is logged), or a task holding
\* the key and the token is spawned.
ReleaseTriggered(c) ==
    \/ rel'[c].relOut \in {"ok", "logged"}
    \/ \E t \in bg' \ bg : t.key = lock[c].key /\ t.token = lock[c].token

\* C17: whatever the type of the handle, the scope end of a held handle
\* without prevent triggers the release of its token.
C17_AutoRelease ==
    [][\A c \in Clients : ScopeEnds(c) => ReleaseTriggered(c)]_vars

\* ----------------------------------------------------------------- C18
\* The task spawned by c's Drop ended in a failure (no connection, or the
\* script call failed).
BgFailed(c) == io[c].task \in {"logged", "silent"}

\* C18: every failure of a spawned release task is logged, the failure to
\* get a connection as well as the failure of the script, and the caller
\* that dropped the handle never sees it.
C18_BgFailureLogged ==
    \A c \in Clients :
        BgFailed(c) =>
            /\ io[c].task = "logged"
            /\ call[c].pc = "dropped"
            /\ call[c].result \notin Errors

\* ----------------------------------------------------------------- C19
\* The caller drops the future of a non-blocking acquire at one of its
\* await points (pool.get(), the SET, the corrective GET, the sleep).  The
\* handle inside the future is dropped with it: its token is assigned only
\* when the SET's or the GET's await has returned, so it is still None and
\* Drop returns at once.  A SET on its way may have been applied.
Cancel(c) ==
    /\ call[c].pc \in {"set_nx", "get", "sleep"}
    /\ lock[c].token = None
    /\ \/ /\ call[c].pc = "set_nx"
          /\ LET k == lock[c].key
                 st2 == SetNxPx(store, k, Tok(c)).store
             IN /\ store' = st2
                /\ pttl' = SetNxPxTtl(store, pttl, k, Lease(c))
                /\ obs' = [obs EXCEPT ![c] =
                             [@ EXCEPT !.nSet = @ + 1, !.nGet = 0, !.setOut = "lost",
                                       !.landed = (st2[k] = Tok(c)), !.getSaw = NoGet]]
          /\ io' = Sent(c, "SET")
       \/ UNCHANGED <<store, pttl, obs, io>>
    /\ call' = [call EXCEPT ![c] = [@ EXCEPT !.pc = "cancelled", !.result = "Cancelled"]]
    /\ UNCHANGED <<lock, rel, bg, lastEvent>>

NextCancel ==
    \/ Next
    \/ \E c \in Clients : Cancel(c)

SpecCancel == Init /\ [][NextCancel]_vars

\* C19: when a non-blocking acquire is abandoned after the store applied
\* its SET, the library still releases the lock: as long as the key holds
\* the token of the abandoned call, a release for that token is under way.
C19_CancelStillReleases ==
    \A c \in Clients :
        (/\ call[c].pc = "cancelled"
         /\ obs[c].landed
         /\ store[lock[c].key] = CurTok(c))
            => \E t \in bg : t.key = lock[c].key /\ t.token = CurTok(c)

\* ----------------------------------------------------------------- C20
\* The handle of redlock.rs is built by RedLock::new and acquired by
\* acquire(mut self) / try_acquire(mut self, attempts, duration), which
\* take the handle by value and give it back in Ok(Some(self)).  The caller
\* can therefore call them again on the handle it was given.

\* The acquire / try_acquire calls made on one handle, at most.
MaxCalls == 2

\* RedLock::new(pool, key, ttl): the handle, with token None and prevent
\* false; nothing is sent.  io[c].gen counts from 1 the acquire call the
\* handle is in or was last in.
New(c) ==
    /\ call[c].pc = "idle"
    /\ \E k \in Keys, d \in Ttls :
        lock' = [lock EXCEPT ![c] =
                   [key |-> k, ttl |-> d, token |-> None, prevent |-> FALSE]]
    /\ call' = [call EXCEPT ![c].pc = "new"]
    /\ io' = [io EXCEPT ![c].gen = 1]
    /\ UNCHANGED <<store, pttl, obs, rel, bg, lastEvent>>

\* The first acquire() / try_acquire(attempts, duration) on the handle that
\* RedLock::new built: the struct goes in as it is, with its prevent flag.
AcquireNew(c) ==
    /\ call[c].pc = "new"
    /\ \E r \in BOOLEAN, n \in 0..MaxAttempts :
        /\ r \/ n = 0
        /\ call' = [call EXCEPT ![c] =
                      [pc |-> IF r /\ n <= 0 THEN "done" ELSE "set_nx",
                       retry |-> r, attempts |-> n, i |-> 0,
                       result |-> IF r /\ n <= 0 THEN "None" ELSE "pending"]]
    /\ obs' = [obs EXCEPT ![c] = InitObs]
    /\ io' = Sent(c, "none")
    /\ UNCHANGED <<store, pttl, lock, rel, bg, lastEvent>>

\* acquire / try_acquire called on the handle an earlier call returned: the
\* struct goes in as it is, with its token and its prevent flag.  The
\* tokens of this call are numbered after those of the calls before it.
Reacquire(c) ==
    /\ call[c].pc = "held"
    /\ io[c].gen < MaxCalls
    /\ \E r \in BOOLEAN, n \in 0..MaxAttempts :
        /\ r \/ n = 0
        /\ call' = [call EXCEPT ![c] =
                      [pc |-> IF r /\ n <= 0 THEN "done" ELSE "set_nx",
                       retry |-> r, attempts |-> n, i |-> 0,
                       result |-> IF r /\ n <= 0 THEN "None" ELSE "pending"]]
    /\ obs' = [obs EXCEPT ![c] = [InitObs EXCEPT !.nSet = MaxAttempts * io[c].gen]]
    /\ io' = [io EXCEPT ![c].gen = @ + 1, ![c].cmd = "none"]
    /\ UNCHANGED <<store, pttl, lock, rel, bg, lastEvent>>

\* Drop for RedLock at the end of a call that did not give the handle back
\* (Err, or Ok(None)) while the handle had a token.
DropInCall(c) ==
    /\ call[c].pc = "done"
    /\ lock[c].token # None
    /\ call' = [call EXCEPT ![c].pc = "dropped"]
    /\ LET k == lock[c].key
           t == lock[c].token
       IN \/ /\ lock[c].prevent
             /\ io' = Sent(c, "none")
             /\ UNCHANGED <<store, pttl, lock, rel, lastEvent>>
          \/ /\ ~lock[c].prevent
             /\ UNCHANGED <<store, pttl, lock, lastEvent>>
             /\ rel' = [rel EXCEPT ![c].relOut = "logged"]
             /\ io' = Sent(c, "none")
          \/ /\ ~lock[c].prevent
             /\ store' = DEL(store, k, t)
             /\ pttl' = Kept(DEL(store, k, t), pttl)
             /\ lastEvent' = [lastEvent EXCEPT ![k] = Removed(store, DEL(store, k, t), k, "released")]
             /\ lock' = [lock EXCEPT ![c].token = None]
             /\ rel' = [rel EXCEPT ![c] = [relOut |-> "ok", scriptRet |-> DelReply(store, k, t)]]
             /\ io' = Sent(c, "EVAL")
          \/ /\ ~lock[c].prevent
             /\ \E applied \in BOOLEAN :
                  LET st2 == IF applied THEN DEL(store, k, t) ELSE store
                  IN /\ store' = st2
                     /\ pttl' = Kept(st2, pttl)
                     /\ lastEvent' = [lastEvent EXCEPT ![k] = Removed(store, st2, k, "released")]
             /\ rel' = [rel EXCEPT ![c].relOut = "logged"]
             /\ io' = Sent(c, "EVAL")
             /\ UNCHANGED lock
    /\ UNCHANGED <<obs, bg>>

\* The steps of RedLock::new handles (blocking, with prevent) on a store
\* that answers every SET it is sent.
NextBuilder ==
    \/ \E c \in Clients : New(c)
    \/ \E c \in Clients : AcquireNew(c)
    \/ \E c \in Clients : SetNxConnFail(c)
    \/ \E c \in Clients : SetNxOk(c)
    \/ \E c \in Clients : Sleep(c)
    \/ \E c \in Clients : Release(c)
    \/ \E c \in Clients : Prevent(c)
    \/ \E c \in Clients : DropSkip(c)
    \/ \E c \in Clients : DropSync(c)
    \/ \E c \in Clients : Reacquire(c)
    \/ \E c \in Clients : DropInCall(c)
    \/ \E k \in Keys : Expire(k)

SpecBuilder == Init /\ [][NextBuilder]_vars

\* C20: the token of a handle, once Some(t), changes only to None, and the
\* token of a handle that was held and released (its script ran) stays None.
C20_TokenOnlyCleared ==
    [][\A c \in Clients :
        /\ lock[c].token # None => lock'[c].token \in {lock[c].token, None}
        /\ (lock[c].token = None /\ rel[c].relOut = "ok" /\ rel[c].scriptRet # -1)
              => lock'[c].token = None]_vars

\* ----------------------------------------------------------------- C21
\* Client c sends the release script in this step (release() or the
\* blocking Drop got a connection and invoked the script).
SendsScript(c) == (Release(c) \/ DropSync(c)) /\ io'[c].cmd = "EVAL"

\* The token of c's handle was established by the acquire call that has
\* just returned: its SET was answered true, or its corrective GET
\* returned the token.
Established(c) ==
    /\ lock[c].token = CurTok(c)
    /\ obs[c].nSet >= 1
    /\ obs[c].setOut = "true" \/ obs[c].getSaw = CurTok(c)

\* C21: every script the library sends for a handle, at once or from a
\* spawned task, carries the token of that handle, a token one of the
\* handle's own attempts established; no script is sent for a handle that
\* has no token.
C21_HeldBeforeRelease ==
    /\ [](\A c \in Clients :
            (Observed(c) /\ lock[c].token # None) => Established(c))
    /\ [](\A t \in bg :
            /\ t.token # None
            /\ t.token[1] = t.owner
            /\ t.token = lock[t.owner].token
            /\ t.key = lock[t.owner].key)
    /\ [][\A c \in Clients :
            /\ SendsScript(c) => (lock[c].token # None /\ lock[c].token[1] = c)
            /\ (lock[c].token # None /\ lock'[c].token # None)
                  => lock'[c].token = lock[c].token]_vars

\* A held handle has sent the script with its token, and the script
\* deleted the key.
C21_Witness ==
    \E c \in Clients :
        /\ call[c].pc = "held"
        /\ io[c].cmd = "EVAL"
        /\ rel[c] = [relOut |-> "ok", scriptRet |-> 1]
        /\ lock[c].token = None
        /\ lastEvent[lock[c].key] = "released"

\* ----------------------------------------------------------------- C22
\* The value at key k is a token of a handle of this library.
HoldsToken(st, k) == st[k][1] \in Clients

\* C22: the library never renews a lease.  A step that leaves a handle's
\* token at a key leaves the expiry of the key as it is, whatever the step
\* (further attempts of any handle, release, scope end, spawned task); the
\* expiry is the one the original SET armed, the ttl of the handle that
\* holds the token.
C22_LeaseFixed ==
    \A c \in Clients :
        (lock[c].token # None /\ store[lock[c].key] = lock[c].token)
            => pttl[lock[c].key] = Px(lock[c].ttl)

C22_NoRenewal ==
    /\ []C22_LeaseFixed
    /\ [][\A k \in Keys :
            (HoldsToken(store, k) /\ store'[k] = store[k]) => pttl'[k] = pttl[k]]_vars

\* A handle holds the key while the retrying acquire of another handle,
\* with another ttl, has sent a SET for the same key and got false.
C22_Witness ==
    \E c \in Clients, d \in Clients :
        /\ call[c].pc = "held"
        /\ store[lock[c].key] = lock[c].token
        /\ lock[c].token # None
        /\ lock[d].key = lock[c].key
        /\ lock[d].ttl # lock[c].ttl
        /\ call[d].retry
        /\ obs[d].setOut = "false"
        /\ pttl[lock[c].key] = Px(lock[c].ttl)

\* ----------------------------------------------------------------- C23
\* The arguments a caller can pass to acquire, the empty key and the zero
\* ttl among them.
ArgKeys == Keys \cup {""}
ArgTtls == Ttls \cup {0}

InitArgs ==
    /\ store = [k \in ArgKeys |-> None]
    /\ pttl = [k \in ArgKeys |-> -2]
    /\ lock = [c \in Clients |->
                 [key |-> "k1", ttl |-> 500, token |-> None, prevent |-> FALSE]]
    /\ call = [c \in Clients |-> InitCall]
    /\ obs = [c \in Clients |-> InitObs]
    /\ rel = [c \in Clients |-> [relOut |-> "none", scriptRet |-> -1]]
    /\ io = [c \in Clients |-> [cmd |-> "none", task |-> "none", gen |-> 0]]
    /\ bg = {}
    /\ lastEvent = [k \in ArgKeys |-> "quiet"]

\* What acquire does with its arguments before the first command: it
\* builds the handle from them (key.to_string(), ttl) and checks nothing.
Rejects(k, d) == FALSE

\* acquire(pool, key, ttl, retry) with any key and ttl.
AcquireArgs(c) ==
    /\ call[c].pc = "idle"
    /\ \E k \in ArgKeys, d \in ArgTtls, r \in BOOLEAN, n \in 0..MaxAttempts :
        /\ r \/ n = 0
        /\ lock' = [lock EXCEPT ![c] =
                      [key |-> k, ttl |-> d, token |-> None, prevent |-> FALSE]]
        /\ call' = [call EXCEPT ![c] =
                      IF Rejects(k, d)
                      THEN [InitCall EXCEPT !.pc = "done", !.result = "ErrInvalidArgument"]
                      ELSE [pc |-> IF r /\ n <= 0 THEN "done" ELSE "set_nx",
                            retry |-> r, attempts |-> n, i |-> 0,
                            result |-> IF r /\ n <= 0 THEN "None" ELSE "pending"]]
    /\ UNCHANGED <<store, pttl, obs, rel, io, bg, lastEvent>>

\* set_nx with PX 0: the store refuses the command (invalid expire time)
\* and writes nothing; the client sees a SET that failed.
SetNxInvalid(c) ==
    /\ call[c].pc = "set_nx"
    /\ Lease(c) <= 0
    /\ obs' = [obs EXCEPT ![c] =
                 [@ EXCEPT !.nSet = @ + 1, !.nGet = 0, !.setOut = "err",
                           !.landed = FALSE, !.getSaw = NoGet]]
    /\ call' = [call EXCEPT ![c].pc = "get"]
    /\ io' = Sent(c, "SET")
    /\ UNCHANGED <<store, pttl, lock, rel, bg, lastEvent>>

\* The steps of handles acquired with any arguments, the pool giving a
\* connection to every set_nx.
NextArgs ==
    \/ \E c \in Clients : AcquireArgs(c)
    \/ \E c \in Clients : SetNxOk(c)
    \/ \E c \in Clients : SetNxErr(c)
    \/ \E c \in Clients : SetNxInvalid(c)
    \/ \E c \in Clients : CorrectiveGetFail(c)
    \/ \E c \in Clients : CorrectiveGetOk(c)
    \/ \E c \in Clients : Sleep(c)
    \/ \E c \in Clients : Release(c)
    \/ \E c \in Clients : Prevent(c)
    \/ \E c \in Clients : DropSkip(c)
    \/ \E c \in Clients : DropSync(c)
    \/ \E c \in Clients : DropAsync(c)
    \/ \E t \in bg : BgRelease(t)
    \/ \E t \in bg : RuntimeShutdown(t)
    \/ \E k \in ArgKeys : Expire(k)

SpecArgs == InitArgs /\ [][NextArgs]_vars

\* The arguments of c's acquire call are not valid: empty key, or a ttl
\* that is not positive.
BadArgs(c) == lock[c].key = "" \/ lock[c].ttl <= 0

\* C23: an acquire called with an empty key or a ttl that is not positive
\* is rejected with InvalidArgument; it sends no SET, writes no key, and
\* does not return Some.
C23_InvalidArgument ==
    \A c \in Clients :
        (call[c].pc # "idle" /\ BadArgs(c)) =>
            /\ call[c].pc \in {"held", "done", "dropped"}
                  => call[c].result = "ErrInvalidArgument"
            /\ lock[c].token = None
            /\ obs[c].nSet = 0 \/ store[lock[c].key] # CurTok(c)

\* ----------------------------------------------------------------- C24
\* C24: the key a handle holds carries, in milliseconds, exactly the ttl
\* the caller gave: nothing is rounded to seconds and nothing is clamped.
C24_MsExpiry ==
    \A c \in Clients :
        (lock[c].token # None /\ store[lock[c].key] = lock[c].token)
            => pttl[lock[c].key] = lock[c].ttl

\* ----------------------------------------------------------------- C25
\* C25: when the SET fails with a store error and the corrective GET fails
\* too, acquire returns the GET's error at once: the one GET is the only
\* one of the attempt, the retry loop makes no further attempt (no SET and
\* no sleep follows), and the handle's token is still None.
C25_AfterGetFailed ==
    \A c \in Clients :
        (Observed(c) /\ obs[c].getSaw = GetFailed) =>
            /\ call[c].pc = "done"
            /\ call[c].result = "ErrGet"
            /\ obs[c].setOut = "err"
            /\ obs[c].nGet = 1
            /\ lock[c].token = None
            /\ call[c].retry => (obs[c].nSet = call[c].i + 1 /\ obs[c].nSleep = call[c].i)
            /\ ~call[c].retry => obs[c].nSet = 1

C25_GetErrorIsFinal ==
    /\ []C25_AfterGetFailed
    /\ [][\A c \in Clients :
            CorrectiveGetFail(c) =>
                /\ call'[c].pc = "done"
                /\ call'[c].result = "ErrGet"
                /\ lock' = lock
                /\ store' = store]_vars

\* A retrying acquire with attempts left has returned the error of the
\* GET that followed its first failed SET.
C25_Witness ==
    \E c \in Clients :
        /\ Observed(c)
        /\ call[c].retry
        /\ call[c].attempts = MaxAttempts
        /\ call[c].i = 0
        /\ obs[c].getSaw = GetFailed
        /\ call[c].result = "ErrGet"

\* ----------------------------------------------------------------- C26
\* Client c's handle sends a command to the store in this step.
Commands(c) ==
    \/ SetNxOk(c) \/ SetNxErr(c) \/ SetNxInvalid(c)
    \/ CorrectiveGetOk(c) \/ CorrectiveGetFail(c)
    \/ Release(c) \/ DropSync(c)

\* The step leaves every key but k as it is.
OnlyKey(k) ==
    \A q \in DOMAIN store \ {k} : store'[q] = store[q] /\ pttl'[q] = pttl[q]

\* C26: the key and the ttl of a handle are those it was built with, for
\* its whole life: no attempt, release, prevent or scope end changes them,
\* and every command of the handle, the script of its spawned task
\* included, goes to that key and to no other.
C26_KeyAndTtlFixed ==
    /\ [][\A c \in Clients :
            call[c].pc # "idle" =>
                (lock'[c].key = lock[c].key /\ lock'[c].ttl = lock[c].ttl)]_vars
    /\ [][\A c \in Clients : Commands(c) => OnlyKey(lock[c].key)]_vars
    /\ [](\A t \in bg : t.key = lock[t.owner].key)
    /\ [][\A t \in bg : BgRelease(t) => OnlyKey(lock[t.owner].key)]_vars

\* Two handles on different keys, each holding its own: one had prevent
\* called after it was acquired, the other is out of scope with its release
\* task still waiting.
C26_Witness ==
    \E c \in Clients, d \in Clients :
        /\ lock[c].key # lock[d].key
        /\ call[c].pc = "held" /\ lock[c].prevent
        /\ store[lock[c].key] = lock[c].token
        /\ call[d].pc = "dropped"
        /\ \E t \in bg : t.owner = d
        /\ store[lock[d].key] = lock[d].token

\* ----------------------------------------------------------------- C27
\* The release task t of a handle that went out of scope has not run yet
\* and the key still holds the handle's token.
Pending(t) == t \in bg /\ store[t.key] = t.token

\* C27: the non-blocking Drop ends with the store untouched, the release
\* left to the task it spawned; as long as that task has not run, the
\* key still holds the token, so the SET of another handle on the same key
\* is answered nil whenever it arrives, and a single-attempt acquire
\* returns None.
C27_ReleaseUnordered ==
    /\ [][\A c \in Clients :
            (DropAsync(c) \/ DropLegacy(c)) =>
                /\ store' = store /\ pttl' = pttl
                /\ io'[c].task = "spawned" =>
                      \E t \in bg' \ bg :
                          /\ t.owner = c
                          /\ t.key = lock[c].key /\ t.token = lock[c].token]_vars
    /\ [][\A t \in bg, d \in Clients :
            (Pending(t) /\ SetNxOk(d) /\ lock[d].key = t.key) =>
                /\ obs'[d].setOut = "false"
                /\ lock'[d].token = None
                /\ store' = store
                /\ ~call[d].retry =>
                      call'[d].pc = "done" /\ call'[d].result = "None"]_vars

\* A handle is out of scope with its release task still waiting and its
\* token still in the key, and a single-attempt acquire of the same key by
\* another handle has returned None.
C27_Witness ==
    \E t \in bg, d \in Clients :
        /\ Pending(t)
        /\ call[t.owner].pc = "dropped"
        /\ d # t.owner
        /\ lock[d].key = t.key
        /\ Observed(d) /\ call[d].pc = "done" /\ ~call[d].retry
        /\ obs[d].nSet = 1 /\ obs[d].setOut = "false"
        /\ call[d].result = "None"

\* ----------------------------------------------------------------- C28
\* The last release() of c's handle returned an error and the caller still
\* owns the handle.
FailedRelease(c) == call[c].pc = "held" /\ rel[c].relOut = "err"

\* C28: a release() that failed leaves the token in the handle; the next
\* release() is no no-op (it acts with that token: the script runs on the
\* handle's key with it, unless the pool gives no connection), and the
\* scope end of the handle, prevent not called, still triggers the release
\* with that token.
C28_FailedReleaseRetried ==
    /\ [](\A c \in Clients : FailedRelease(c) => lock[c].token # None)
    /\ [][\A c \in Clients :
            (FailedRelease(c) /\ Release(c)) =>
                /\ ~ReleaseNoop(c)
                /\ io'[c].cmd = "EVAL" =>
                      store' \in {store,
                                  DEL(store, lock[c].key, lock[c].token)}]_vars
    /\ [][\A c \in Clients :
            (FailedRelease(c) /\ ScopeEnds(c)) => ReleaseTriggered(c)]_vars

\* ----------------------------------------------------------------- C29
\* The caller owns c's handle and its last release() returned Ok.
ReleasedOk(c) == call[c].pc = "held" /\ rel[c].relOut = "ok"

\* The script of c's handle is executed without error in this step, sent
\* by release(), by the blocking Drop or by the spawned task.
ScriptSucceeds(c) ==
    \/ /\ Release(c) \/ DropSync(c)
       /\ io'[c].cmd = "EVAL"
       /\ rel'[c].relOut = "ok"
    \/ \E t \in bg : t.owner = c /\ BgReleaseRun(t)

\* A script of c's handle was executed without error before.
ScriptSucceeded(c) == rel[c].scriptRet # -1 \/ io[c].task = "ran"

\* C29: once release() has returned Ok the token is None, and the scope end
\* of the handle, blocking or not, sends no command and spawns no task;
\* no handle has its script executed successfully twice.
C29_OneSuccessfulRelease ==
    /\ [](\A c \in Clients : ReleasedOk(c) => lock[c].token = None)
    /\ [][\A c \in Clients :
            (ReleasedOk(c) /\ call'[c].pc = "dropped") =>
                /\ io'[c].cmd = "none" /\ io'[c].task = io[c].task
                /\ bg' = bg
                /\ store' = store /\ pttl' = pttl
                /\ rel' = rel]_vars
    /\ [][\A c \in Clients : ScriptSucceeds(c) => ~ScriptSucceeded(c)]_vars

\* A handle whose release() deleted the key went out of scope, prevent not
\* called, and its Drop sent nothing and spawned nothing.
C29_Witness ==
    \E c \in Clients :
        /\ call[c].pc = "dropped"
        /\ ~lock[c].prevent
        /\ lock[c].token = None
        /\ rel[c] = [relOut |-> "ok", scriptRet |-> 1]
        /\ io[c].cmd = "none" /\ io[c].task = "none"
        /\ \A t \in bg : t.owner # c

\* ----------------------------------------------------------------- C30
\* C30: once an acquire has returned None or an error, no key of the store
\* holds a token that call generated, the case of a SET that failed after
\* its write landed included.
C30_FailedLeavesNothing ==
    \A c \in Clients :
        (call[c].pc = "done" /\ call[c].result # "Some") =>
            \A k \in DOMAIN store : store[k][1] # c

\* ----------------------------------------------------------------- C31
\* The whole system, futures dropped by their callers included, with a
\* store that ends every lease that runs out.
SpecExpiry ==
    Init /\ [][NextCancel]_vars /\ \A k \in Keys : WF_vars(Expire(k))

\* C31: a key that holds a token of the library carries an expiry (a
\* positive remaining time, never "no expiry"), and so a key that holds a
\* token does not hold one for ever, whether or not the holder releases it:
\* the store ends the lease.  (SET NX writes absent keys only, so between
\* two tokens the key is absent.)
C31_LeaseEnds ==
    /\ [](\A k \in Keys : HoldsToken(store, k) => pttl[k] > 0)
    /\ \A k \in Keys : HoldsToken(store, k) ~> ~HoldsToken(store, k)

\* The lease of a key ran out while its token was still with a handle that
\* nobody released: prevent had been called, or the handle is out of scope.
C31_Witness ==
    \E c \in Clients :
        /\ lock[c].token # None
        /\ call[c].pc \in {"held", "dropped"}
        /\ lock[c].prevent
        /\ store[lock[c].key] = None
        /\ lastEvent[lock[c].key] = "expired"
        /\ rel[c].relOut = "none"
        /\ \A d \in Clients \ {c} : call[d].pc = "idle"

\* ----------------------------------------------------------------- C32
\* retry: Option<(i32, Duration)>: the least value of the attempts.
I32Min == -2147483647 - 1

\* The attempts a caller may pass.
AttemptArgs == {I32Min, -1} \cup (0..MaxAttempts)

\* let threshold = attempts - 1; in i32, computed before the loop.  The
\* subtraction overflows for the least i32: a build with overflow checks
\* (the debug profile) panics there, a build without them wraps around.
Overflows(n) == n = I32Min

\* acquire(pool, key, ttl, retry) with any attempts, in a build with or
\* without overflow checks.
AcquireRetry(c) ==
    /\ call[c].pc = "idle"
    /\ \E k \in Keys, d \in Ttls, r \in BOOLEAN, n \in AttemptArgs,
          checks \in BOOLEAN :
        /\ r \/ n = 0
        /\ lock' = [lock EXCEPT ![c] =
                      [key |-> k, ttl |-> d, token |-> None, prevent |-> FALSE]]
        /\ call' = [call EXCEPT ![c] =
                      IF r /\ checks /\ Overflows(n)
                      THEN [pc |-> "done", retry |-> r, attempts |-> n, i |-> 0,
                            result |-> "Panic"]
                      ELSE [pc |-> IF r /\ n <= 0 THEN "done" ELSE "set_nx",
                            retry |-> r, attempts |-> n, i |-> 0,
                            result |-> IF r /\ n <= 0 THEN "None" ELSE "pending"]]
    /\ UNCHANGED <<store, pttl, obs, rel, io, bg, lastEvent>>

\* The acquire calls with any attempts, and the handles they return.
NextRetry ==
    \/ \E c \in Clients : AcquireRetry(c)
    \/ \E c \in Clients : SetNxConnFail(c)
    \/ \E c \in Clients : SetNxOk(c)
    \/ \E c \in Clients : SetNxErr(c)
    \/ \E c \in Clients : CorrectiveGetFail(c)
    \/ \E c \in Clients : CorrectiveGetOk(c)
    \/ \E c \in Clients : Sleep(c)
    \/ \E c \in Clients : Release(c)
    \/ \E c \in Clients : DropSkip(c)
    \/ \E c \in Clients : DropSync(c)
    \/ \E k \in Keys : Expire(k)

SpecRetry == Init /\ [][NextRetry]_vars

\* max(n, 0)
Max0(n) == IF n > 0 THEN n ELSE 0

\* C32: a retry acquire makes max(attempts, 0) attempts and no more.  With
\* attempts <= 0 it returns None without a single command, the key free or
\* not; with attempts = 1 it makes one attempt and does not sleep; a call
\* that returns None after answered attempts has made all of them.
C32_AttemptCount ==
    \A c \in Clients :
        (call[c].retry /\ call[c].pc # "idle") =>
            /\ obs[c].nSet <= Max0(call[c].attempts)
            /\ call[c].attempts <= 0 =>
                  /\ call[c].pc = "done" /\ call[c].result = "None"
                  /\ obs[c].nSet = 0 /\ obs[c].nGet = 0
                  /\ io[c].cmd = "none"
            /\ call[c].attempts = 1 => obs[c].nSleep = 0
            /\ (call[c].pc = "done" /\ call[c].result = "None"
                  /\ obs[c].setOut \in {"none", "true", "false"}) =>
                  obs[c].nSet = Max0(call[c].attempts)

\* ----------------------------------------------------------------- C33
\* A step of c's acquire call: an attempt's SET, its corrective GET, or the
\* sleep before the next attempt.  The step that returns None or an error
\* drops the handle built inside acquire, whose token is None.
AcquireStep(c) ==
    \/ SetNxConnFail(c) \/ SetNxOk(c) \/ SetNxErr(c)
    \/ CorrectiveGetFail(c) \/ CorrectiveGetOk(c)
    \/ Sleep(c)

\* C33: an acquire call sends SET and GET and nothing else: no step of it,
\* the return of None or of an error with the drop of its unheld handle
\* included, sends the script or spawns a task, and none removes or alters
\* a key that is present; a call that returned None or an error has sent no
\* script and left no task, and its handle had no token.
C33_FailedAcquireFrame ==
    /\ [][\A c \in Clients :
            AcquireStep(c) =>
                /\ io'[c].cmd \in {"none", "SET", "GET"}
                /\ io'[c].task = io[c].task
                /\ bg' = bg /\ rel' = rel
                /\ \A k \in DOMAIN store :
                      store[k] # None =>
                          store'[k] = store[k] /\ pttl'[k] = pttl[k]]_vars
    /\ [](\A c \in Clients :
            call[c].pc = "done" =>
                /\ io[c].cmd \in {"none", "SET", "GET"}
                /\ io[c].task = "none"
                /\ rel[c].relOut = "none"
                /\ lock[c].token = None
                /\ \A t \in bg : t.owner # c)

\* A single-attempt acquire returned None on a key another handle holds,
\* and the key still holds that handle's token with its lease.
C33_Witness ==
    \E c \in Clients, d \in Clients :
        /\ call[c].pc = "done" /\ call[c].result = "None"
        /\ obs[c].nSet = 1 /\ obs[c].setOut = "false"
        /\ io[c].cmd = "SET"
        /\ call[d].pc = "held" /\ lock[d].key = lock[c].key
        /\ lock[d].token # None
        /\ store[lock[d].key] = lock[d].token
        /\ pttl[lock[d].key] = lock[d].ttl

\* ----------------------------------------------------------------- C34
\* C34: prevent() sets the flag and nothing else: token, key and ttl of the
\* handle, the store and the tasks stay as they are and no command is sent;
\* once set, the flag stays set whatever is called on the handle; and a
\* release() of a suppressed handle that holds a token is no no-op: when it
\* returns Ok it has run the compare-and-delete with the token and cleared
\* the token.
C34_PreventOnlyFlags ==
    /\ [][\A c \in Clients :
            Prevent(c) =>
                /\ lock'[c] = [lock[c] EXCEPT !.prevent = TRUE]
                /\ store' = store /\ pttl' = pttl
                /\ bg' = bg /\ rel' = rel
                /\ io'[c].cmd = "none"]_vars
    /\ [][\A c \in Clients :
            (call[c].pc # "idle" /\ lock[c].prevent) => lock'[c].prevent]_vars
    /\ [][\A c \in Clients :
            (/\ lock[c].prevent /\ lock[c].token # None
             /\ Release(c) /\ rel'[c].relOut = "ok") =>
                /\ io'[c].cmd = "EVAL"
                /\ store' = DEL(store, lock[c].key, lock[c].token)
                /\ lock'[c].token = None
                /\ lock'[c].prevent]_vars

\* A handle on which prevent() was called released its key by a later
\* release(): the script deleted the key and the token is None.
C34_Witness ==
    \E c \in Clients :
        /\ call[c].pc = "held"
        /\ lock[c].prevent
        /\ lock[c].token = None
        /\ rel[c] = [relOut |-> "ok", scriptRet |-> 1]
        /\ io[c].cmd = "EVAL"
        /\ store[lock[c].key] = None
        /\ lastEvent[lock[c].key] = "released"

====
